---------------------------- MODULE Spec2Model ----------------------------
(***************************************************************************)
(* State machine of VinylMusicPlayer (src/script.js): the track registry,  *)
(* the transport (the <audio> element), the speed / pitch controls and the *)
(* rotation engine of the disc (playback tick and drag-to-scratch).        *)
(*                                                                         *)
(* Number representation (the source computes in IEEE doubles):            *)
(*   - pointer angles (Math.atan2) are counted in units of 180/PI degrees, *)
(*     so Math.PI is the integer PI;                                       *)
(*   - rotation is in whole degrees;                                       *)
(*   - times (currentTime, duration) are in units of 1/Second seconds,     *)
(*     chosen so that the 0.1 s threshold of drag() is the integer         *)
(*     SeekThreshold;                                                      *)
(*   - rates are in hundredths (1.0 is RateOne);                           *)
(*   - NaN (unknown duration, a remainder by zero) is the value NaN, which *)
(*     no duration or index of the program can take otherwise.             *)
(***************************************************************************)
EXTENDS Integers, Sequences, FiniteSets, TLC

(***************************************************************************)
(* Bounds of the model                                                     *)
(***************************************************************************)
MaxTracks == 2
MaxSteps == 6
MaxUploads == 1
MaxTheta == 720

(***************************************************************************)
(* Program constants and value encodings                                   *)
(***************************************************************************)
PI == 2
SeekThreshold == 9
Second == 10 * SeekThreshold
RateOne == 100
NaN == -999999
NoSrc == 0
NoCover == 0
NoSeek == -1
\* metadata.colors of a metadata object without colors
NoColors == [primary |-> <<>>, lighter |-> <<>>, darker |-> <<>>]
\* the metadata object {}
EmptyMetadata == [title |-> <<>>, artist |-> <<>>, album |-> <<>>, coverArt |-> NoCover,
                  colors |-> NoColors]
UnknownArtist == <<"U", "n", "k", "n", "o", "w", "n", " ", "A", "r", "t", "i", "s", "t">>
\* this.coverImage before the first loadTrack (the constructor never assigns it)
UndefinedImage == [kind |-> "undefined", src |-> NoCover, complete |-> FALSE, broken |-> FALSE]
\* this.coverImage = null
NullImage == [kind |-> "null", src |-> NoCover, complete |-> FALSE, broken |-> FALSE]

\* inputs of the handlers: pointer angles of -90, 90 and 180 degrees, out of
\* the range (-PI, PI] of Math.atan2
PointerAngles == {1 - PI, PI - 1, PI}
SpeedValues == {RateOne \div 2, (3 * RateOne) \div 2}
PitchValues == {-12, 12}
Durations == {0, 200 * Second}
AdvanceSteps == {SeekThreshold, SeekThreshold + 1}

\* pixel buffers of embedded pictures, by picture id (the id also stands for
\* the data URL built from the picture).  Picture 1 has 21 opaque pixels, of
\* which the loop samples the 1st, 11th and 21st; picture 2 has 11 pixels, all
\* of them below the alpha threshold.
PictureData(id) ==
  IF id = 1
  THEN [k \in 1 .. 21 |-> IF k = 1 THEN <<250, 130, 10, 255>>
                          ELSE IF k \in {11, 21} THEN <<200, 20, 240, 255>>
                          ELSE <<0, 0, 0, 255>>]
  ELSE [k \in 1 .. 11 |-> <<10, 10, 10, 100>>]

\* a File with what the tag reader finds in it: tags.ok is FALSE when the
\* reader reports an error, tags.picture is NoCover when no picture is embedded
File(name, type, ok, title, artist, picture) ==
  [name |-> name, type |-> type,
   tags |-> [ok |-> ok, title |-> title, artist |-> artist, album |-> <<>>,
             picture |-> picture]]

SongFile == File(<<"a", ".", "m", "p", "3">>, <<"a", "u", "d", "i", "o", "/", "m", "p", "e", "g">>,
                 TRUE, <<"T">>, <<"A">>, 1)
FlacFile == File(<<"B", ".", "F", "L", "A", "C">>, <<>>, FALSE, <<>>, <<>>, NoCover)
MimeFile == File(<<"d">>, <<"a", "u", "d", "i", "o", "/", "x">>, TRUE, <<>>, <<>>, NoCover)
ClearFile == File(<<"e", ".", "v", "1", ".", "o", "g", "g">>, <<>>, TRUE, <<"E">>, <<>>, 2)
TextFile == File(<<"c", ".", "t", "x", "t">>, <<"t", "e", "x", "t", "/", "p", "l", "a", "i", "n">>,
                 TRUE, <<>>, <<>>, NoCover)
BareFile == File(<<"m", "p", "3">>, <<>>, TRUE, <<>>, <<>>, NoCover)

\* the files the user can pick in the import dialog
Files == {SongFile, FlacFile, MimeFile, ClearFile, TextFile, BareFile}
\* the batches of one selection of the dialog
Batches ==
  {<<f>> : f \in Files}
    \cup {<<TextFile, SongFile>>, <<ClearFile, MimeFile>>, <<FlacFile, BareFile>>,
          <<SongFile, TextFile, FlacFile>>}
\* what surrounds an import: whether window.jsmediatags is present, and how
\* the decoding of an embedded picture ends ("loaded", "error" for onerror,
\* "unreadable" when getImageData throws)
Environments ==
  {[reader |-> FALSE, image |-> "loaded"], [reader |-> TRUE, image |-> "loaded"],
   [reader |-> TRUE, image |-> "error"], [reader |-> TRUE, image |-> "unreadable"]}

\* the selections and surroundings of a listening session
PlayBatches == {<<SongFile>>, <<MimeFile>>}
PlayEnvironments == {[reader |-> TRUE, image |-> "loaded"]}

VARIABLES
  tracks,             \* this.tracks: sequence of tracks [title, artist, album, url, coverArt, colors, file]
  uploads,            \* handleFileUpload invocations suspended at await: [files, i, url]
  currentTrackIndex,  \* this.currentTrackIndex (0-based) or NaN
  isPlaying,          \* this.isPlaying
  isDragging,         \* this.isDragging
  rotation,           \* this.rotation, degrees
  lastAngle,          \* this.lastAngle, pointer-angle units
  playbackRate,       \* this.playbackRate, hundredths
  pitchValue,         \* this.pitchValue, semitones
  audio,              \* this.audio: [src, currentTime, duration, playbackRate]
  coverImage,         \* this.coverImage: UndefinedImage, NullImage or an Image [kind, src, complete, broken]
  animating,          \* animateVinyl() is scheduled for the next animation frame
  steps,              \* number of handler invocations so far
  op,                 \* the handler that ran last
  arg,                \* the argument it was called with (0 for a handler without one)
  seek                \* the value the last handler wrote to audio.currentTime, or NoSeek

vars == <<animating, tracks, uploads, currentTrackIndex, isPlaying, isDragging, rotation, lastAngle,
          playbackRate, pitchValue, audio, coverImage, steps, op, arg, seek>>

(***************************************************************************)
(* Arithmetic of the language                                              *)
(***************************************************************************)
Abs(x) == IF x < 0 THEN -x ELSE x

\* a % b of JavaScript: NaN for NaN operands and for b = 0, otherwise the
\* remainder of the truncating division (it has the sign of a)
JsRem(a, b) ==
  IF a = NaN \/ b = NaN \/ b = 0 THEN NaN
  ELSE IF a >= 0 THEN a % Abs(b) ELSE -((-a) % Abs(b))

\* a + b of JavaScript on numbers: NaN is absorbing
JsAdd(a, b) == IF a = NaN \/ b = NaN THEN NaN ELSE a + b

\* truthiness of a number: 0 and NaN are falsy
Truthy(x) == x # NaN /\ x # 0

\* Math.pow(2, e) for an integer e, as the fraction <<numerator, denominator>>
RECURSIVE Pow2(_)
Pow2(e) ==
  IF e = 0 THEN <<1, 1>>
  ELSE IF e > 0 THEN <<2 * Pow2(e - 1)[1], 1>>
  ELSE <<1, 2 * Pow2(e + 1)[2]>>


Min(a, b) == IF a < b THEN a ELSE b

(***************************************************************************)
(* Initial state: the constructor and init()                               *)
(***************************************************************************)
Init ==
  /\ animating = TRUE
  /\ tracks = <<>>
  /\ uploads = <<>>
  /\ currentTrackIndex = 0
  /\ isPlaying = FALSE
  /\ isDragging = FALSE
  /\ rotation = 0
  /\ lastAngle = 0
  /\ playbackRate = RateOne
  /\ pitchValue = 0
  /\ audio = [src |-> NoSrc, currentTime |-> 0, duration |-> NaN, playbackRate |-> RateOne]
  /\ coverImage = UndefinedImage
  /\ steps = 0
  /\ op = "init"
  /\ arg = 0
  /\ seek = NoSeek

\* every handler invocation counts; runs have at most MaxSteps of them
Step == steps < MaxSteps /\ steps' = steps + 1

(***************************************************************************)
(* Import                                                                  *)
(***************************************************************************)
\* Strings are sequences of one-character strings.
UpperCase == <<"A", "B", "C", "D", "E", "F", "G", "H", "I", "J", "K", "L", "M",
               "N", "O", "P", "Q", "R", "S", "T", "U", "V", "W", "X", "Y", "Z">>
LowerCase == <<"a", "b", "c", "d", "e", "f", "g", "h", "i", "j", "k", "l", "m",
               "n", "o", "p", "q", "r", "s", "t", "u", "v", "w", "x", "y", "z">>

\* String.prototype.toLowerCase
toLowerCase(str) ==
  [k \in 1 .. Len(str) |->
     IF \E u \in 1 .. 26 : UpperCase[u] = str[k]
     THEN LowerCase[CHOOSE u \in 1 .. 26 : UpperCase[u] = str[k]]
     ELSE str[k]]

\* String.prototype.startsWith
startsWith(str, prefix) ==
  Len(prefix) <= Len(str) /\ SubSeq(str, 1, Len(prefix)) = prefix

\* String.prototype.endsWith
endsWith(str, suffix) ==
  Len(suffix) <= Len(str) /\ SubSeq(str, Len(str) - Len(suffix) + 1, Len(str)) = suffix

supportedFormats ==
  << <<".", "m", "p", "3">>, <<".", "w", "a", "v">>, <<".", "f", "l", "a", "c">>,
     <<".", "m", "4", "a">>, <<".", "a", "a", "c">>, <<".", "o", "g", "g">>,
     <<".", "o", "p", "u", "s">>, <<".", "w", "e", "b", "a">>, <<".", "o", "g", "a">>,
     <<".", "a", "l", "a", "c">> >>

\* a test of the extension that compares the name as it is spelled
isSupportedAudioFile_caseSensitive(filename) ==
  \E f \in 1 .. Len(supportedFormats) : endsWith(filename, supportedFormats[f])

isSupportedAudioFile(filename) ==
  \E f \in 1 .. Len(supportedFormats) : endsWith(toLowerCase(filename), supportedFormats[f])

\* the condition of handleFileUpload under which a file becomes a track
accepts(file) ==
  startsWith(file.type, <<"a", "u", "d", "i", "o", "/">>) \/ isSupportedAudioFile(file.name)

\* file.name.replace(/\.[^/.]+$/, ''): the name without its last extension
trackName(name) ==
  LET dots == {k \in 1 .. Len(name) : name[k] = "."}
  IN  IF dots = {} THEN name
      ELSE LET d == CHOOSE k \in dots : \A l \in dots : l <= k
           IN  IF d < Len(name) /\ \A k \in d + 1 .. Len(name) : name[k] # "/"
               THEN SubSeq(name, 1, d - 1)
               ELSE name

(***************************************************************************)
(* Palettes.  A colour 'rgb(r, g, b)' is the triple <<r, g, b>>; the pixel *)
(* buffer imageData.data is the sequence of its pixels <<r, g, b, a>>.     *)
(***************************************************************************)
getDefaultColors ==
  [primary |-> <<42, 42, 42>>, lighter |-> <<82, 82, 82>>, darker |-> <<26, 26, 26>>]

\* Math.round(c / 51) * 51 for a channel c in 0..255
quantize(c) == ((2 * c + 51) \div 102) * 51

SampleRate == 10

\* the quantized keys of the sampled opaque pixels, in the order of the loop
RECURSIVE sampledKeys(_, _)
sampledKeys(data, i) ==
  IF i > Len(data) THEN <<>>
  ELSE LET px == data[i]
           rest == sampledKeys(data, i + SampleRate)
       IN  IF px[4] < 125 THEN rest
           ELSE << <<quantize(px[1]), quantize(px[2]), quantize(px[3])>> >> \o rest

\* colorMap[key]: the number of sampled pixels with that key
countOf(keys, key) == Cardinality({k \in 1 .. Len(keys) : keys[k] = key})

\* sortedColors[0][0]: the most frequent key, the first inserted among equals
\* (Object.entries keeps insertion order and the sort is stable)
dominantKey(keys) ==
  LET first(key) == CHOOSE k \in 1 .. Len(keys) :
                      keys[k] = key /\ \A l \in 1 .. k - 1 : keys[l] # key
      best == CHOOSE k \in 1 .. Len(keys) :
                /\ first(keys[k]) = k
                /\ \A l \in 1 .. Len(keys) :
                     \/ countOf(keys, keys[l]) < countOf(keys, keys[k])
                     \/ countOf(keys, keys[l]) = countOf(keys, keys[k])
                        /\ first(keys[l]) >= k
  IN  keys[best]

\* getDominantColors() whose variants are not clamped to 0..255
getDominantColors_noClamp(data) ==
  LET keys == sampledKeys(data, 1)
  IN  IF Len(keys) = 0 THEN getDefaultColors
      ELSE LET c == dominantKey(keys)
           IN  [primary |-> c,
                lighter |-> <<c[1] + 40, c[2] + 40, c[3] + 40>>,
                darker |-> <<c[1] - 40, c[2] - 40, c[3] - 40>>]

getDominantColors(data) ==
  LET keys == sampledKeys(data, 1)
  IN  IF Len(keys) = 0 THEN getDefaultColors
      ELSE LET c == dominantKey(keys)
           IN  [primary |-> c,
                lighter |-> <<Min(c[1] + 40, 255), Min(c[2] + 40, 255), Min(c[3] + 40, 255)>>,
                darker |-> <<IF c[1] - 40 > 0 THEN c[1] - 40 ELSE 0,
                             IF c[2] - 40 > 0 THEN c[2] - 40 ELSE 0,
                             IF c[3] - 40 > 0 THEN c[3] - 40 ELSE 0>>]

(***************************************************************************)
(* handleFileUpload.  An invocation runs up to its first await (the        *)
(* extractMetadata of the first accepted file), is resumed once per        *)
(* accepted file to push the track and run on to the next await, and ends  *)
(* after the last file.                                                    *)
(***************************************************************************)
\* what getDominantColors returns for the pixels of each embedded picture
PictureColors == [id \in {1, 2} |-> getDominantColors(PictureData(id))]

\* extractColorsFromImage(imageUrl), image being the way the decoding ends
extractColorsFromImage(picture, image) ==
  IF image = "loaded" THEN PictureColors[picture] ELSE getDefaultColors

\* the object extractMetadata(file) resolves with
extractMetadata(file, env) ==
  IF ~env.reader \/ ~file.tags.ok THEN EmptyMetadata
  ELSE [title |-> file.tags.title, artist |-> file.tags.artist, album |-> file.tags.album,
        coverArt |-> file.tags.picture,
        colors |-> IF file.tags.picture = NoCover THEN getDefaultColors
                   ELSE extractColorsFromImage(file.tags.picture, env.image)]

\* a track whose colors are those of the metadata, whatever they are
makeTrack_noDefault(file, url, metadata) ==
  [title |-> IF metadata.title # <<>> THEN metadata.title ELSE trackName(file.name),
   artist |-> IF metadata.artist # <<>> THEN metadata.artist ELSE UnknownArtist,
   album |-> metadata.album,
   url |-> url,
   coverArt |-> metadata.coverArt,
   colors |-> metadata.colors,
   file |-> file]

\* the track object handleFileUpload builds
makeTrack(file, url, metadata) ==
  [title |-> IF metadata.title # <<>> THEN metadata.title ELSE trackName(file.name),
   artist |-> IF metadata.artist # <<>> THEN metadata.artist ELSE UnknownArtist,
   album |-> metadata.album,
   url |-> url,
   coverArt |-> metadata.coverArt,
   colors |-> IF metadata.colors # NoColors THEN metadata.colors ELSE getDefaultColors,
   file |-> file]

\* the files of the dialog that the test of the loop lets through
AcceptedFiles == {file \in Files : accepts(file)}

\* the index of the first accepted file of files at or after from, 0 if none
nextAccepted(files, from) ==
  LET later == {j \in from .. Len(files) : files[j] \in AcceptedFiles}
  IN  IF later = {} THEN 0 ELSE CHOOSE j \in later : \A l \in later : j <= l

\* the number of accepted files of files at or after from
acceptedFrom(files, from) == Cardinality({j \in from .. Len(files) : files[j] \in AcceptedFiles})

\* the tracks the suspended invocations have still to push
RECURSIVE pendingTracks(_)
pendingTracks(us) ==
  IF us = <<>> THEN 0 ELSE acceptedFrom(Head(us).files, Head(us).i) + pendingTracks(Tail(us))

\* URL.createObjectURL: a fresh URL; one was made for every track and for
\* every file awaiting its metadata
createObjectURL == Len(tracks) + Len(uploads) + 1

\* the 'change' event of the file input with the selection batch: the loop
\* up to its first await
handleFileUpload(batch) ==
  /\ Len(uploads) < MaxUploads
  /\ Len(tracks) + pendingTracks(uploads) + acceptedFrom(batch, 1) <= MaxTracks
  /\ uploads' = IF nextAccepted(batch, 1) = 0 THEN uploads
                ELSE Append(uploads, [files |-> batch, i |-> nextAccepted(batch, 1),
                                      url |-> createObjectURL])
  /\ Step
  /\ op' = "handleFileUpload"
  /\ arg' = batch
  /\ seek' = NoSeek
  /\ UNCHANGED <<animating, tracks, currentTrackIndex, isPlaying, isDragging, rotation, lastAngle,
                 playbackRate, pitchValue, audio, coverImage>>

\* uploads without its k-th element
removeAt(us, k) == SubSeq(us, 1, k - 1) \o SubSeq(us, k + 1, Len(us))

\* a resumption that puts the new track in front of the registry
uploadResume_unshift(k, env) ==
  /\ k \in 1 .. Len(uploads)
  /\ LET u == uploads[k]
         track == makeTrack(u.files[u.i], u.url, extractMetadata(u.files[u.i], env))
         j == nextAccepted(u.files, u.i + 1)
     IN  /\ tracks' = <<track>> \o tracks
         /\ uploads' = IF j = 0 THEN removeAt(uploads, k)
                       ELSE [uploads EXCEPT ![k] = [files |-> u.files, i |-> j,
                                                    url |-> createObjectURL + 1]]
  /\ op' = "uploadResume"
  /\ arg' = env
  /\ seek' = NoSeek
  /\ UNCHANGED <<animating, currentTrackIndex, isPlaying, isDragging, rotation, lastAngle,
                 playbackRate, pitchValue, audio, coverImage, steps>>

\* a resumption that reads the file and its URL from where the invocation
\* begun last stands, as if the loop's variables were shared
uploadResume_shared(k, env) ==
  /\ k \in 1 .. Len(uploads)
  /\ LET u == uploads[k]
         last == uploads[Len(uploads)]
         track == makeTrack(last.files[last.i], last.url,
                            extractMetadata(last.files[last.i], env))
         j == nextAccepted(u.files, u.i + 1)
     IN  /\ tracks' = Append(tracks, track)
         /\ uploads' = IF j = 0 THEN removeAt(uploads, k)
                       ELSE [uploads EXCEPT ![k] = [files |-> u.files, i |-> j,
                                                    url |-> createObjectURL + 1]]
  /\ op' = "uploadResume"
  /\ arg' = env
  /\ seek' = NoSeek
  /\ UNCHANGED <<animating, currentTrackIndex, isPlaying, isDragging, rotation, lastAngle,
                 playbackRate, pitchValue, audio, coverImage, steps>>

\* the resumption of the k-th suspended invocation when its metadata is
\* there: the push of the track, then the loop up to the next await or to
\* its end
uploadResume(k, env) ==
  /\ k \in 1 .. Len(uploads)
  /\ LET u == uploads[k]
         track == makeTrack(u.files[u.i], u.url, extractMetadata(u.files[u.i], env))
         j == nextAccepted(u.files, u.i + 1)
     IN  /\ tracks' = Append(tracks, track)
         /\ uploads' = IF j = 0 THEN removeAt(uploads, k)
                       ELSE [uploads EXCEPT ![k] = [files |-> u.files, i |-> j,
                                                    url |-> createObjectURL + 1]]
  /\ op' = "uploadResume"
  /\ arg' = env
  /\ seek' = NoSeek
  /\ UNCHANGED <<animating, currentTrackIndex, isPlaying, isDragging, rotation, lastAngle,
                 playbackRate, pitchValue, audio, coverImage, steps>>

(***************************************************************************)
(* Speed and pitch                                                         *)
(***************************************************************************)
\* the value updatePlaybackRate() assigns to audio.playbackRate
updatePlaybackRate(speed, pitch) ==
  LET pitchFactor == Pow2(pitch \div 12)
  IN  (speed * pitchFactor[1]) \div pitchFactor[2]

changeSpeed(value) ==
  /\ playbackRate' = value
  /\ audio' = [audio EXCEPT !.playbackRate = updatePlaybackRate(value, pitchValue)]
  /\ Step
  /\ op' = "changeSpeed"
  /\ arg' = value
  /\ seek' = NoSeek
  /\ UNCHANGED <<animating, tracks, uploads, currentTrackIndex, isPlaying, isDragging, rotation, lastAngle,
                 pitchValue, coverImage>>

\* changePitch() that forgets to call updatePlaybackRate()
changePitch_stale(value) ==
  /\ pitchValue' = value
  /\ Step
  /\ op' = "changePitch"
  /\ arg' = value
  /\ seek' = NoSeek
  /\ UNCHANGED <<animating, tracks, uploads, currentTrackIndex, isPlaying, isDragging, rotation, lastAngle,
                 playbackRate, audio, coverImage>>

changePitch(value) ==
  /\ pitchValue' = value
  /\ audio' = [audio EXCEPT !.playbackRate = updatePlaybackRate(playbackRate, value)]
  /\ Step
  /\ op' = "changePitch"
  /\ arg' = value
  /\ seek' = NoSeek
  /\ UNCHANGED <<animating, tracks, uploads, currentTrackIndex, isPlaying, isDragging, rotation, lastAngle,
                 playbackRate, coverImage>>

resetEffects ==
  /\ playbackRate' = RateOne
  /\ pitchValue' = 0
  /\ audio' = [audio EXCEPT !.playbackRate = updatePlaybackRate(RateOne, 0)]
  /\ Step
  /\ op' = "resetEffects"
  /\ arg' = 0
  /\ seek' = NoSeek
  /\ UNCHANGED <<animating, tracks, uploads, currentTrackIndex, isPlaying, isDragging, rotation, lastAngle,
                 coverImage>>

(***************************************************************************)
(* Loading and transport control                                           *)
(***************************************************************************)
\* this.tracks[index] is an element (not undefined): index is a number within the array
hasTrack(index) == index # NaN /\ index >= 0 /\ index < Len(tracks)

\* a loadTrack(index) that does not call resetEffects()
loadTrack_keepsEffects(index) ==
  IF ~hasTrack(index) \/ tracks[index + 1].url = NoSrc
  THEN UNCHANGED <<audio, coverImage, playbackRate, pitchValue, isPlaying>>
  ELSE LET track == tracks[index + 1]
       IN  /\ audio' = [src |-> track.url, currentTime |-> 0, duration |-> NaN,
                        playbackRate |-> audio.playbackRate]
           /\ coverImage' = IF track.coverArt # NoCover
                            THEN [kind |-> "image", src |-> track.coverArt, complete |-> FALSE,
                                  broken |-> FALSE]
                            ELSE NullImage
           /\ UNCHANGED <<playbackRate, pitchValue>>
           /\ isPlaying' = TRUE

\* a loadTrack(index) that leaves this.coverImage as it was
loadTrack_keepsCover(index) ==
  IF ~hasTrack(index) \/ tracks[index + 1].url = NoSrc
  THEN UNCHANGED <<audio, coverImage, playbackRate, pitchValue, isPlaying>>
  ELSE LET track == tracks[index + 1]
       IN  /\ audio' = [src |-> track.url, currentTime |-> 0, duration |-> NaN,
                        playbackRate |-> updatePlaybackRate(RateOne, 0)]
           /\ UNCHANGED coverImage
           /\ playbackRate' = RateOne
           /\ pitchValue' = 0
           /\ isPlaying' = TRUE

\* loadTrack(index), with the resetEffects() and play() it ends with.  The
\* assignment to audio.src starts a new load in the transport: position 0,
\* duration unknown until loadedmetadata.
loadTrack(index) ==
  IF ~hasTrack(index) \/ tracks[index + 1].url = NoSrc
  THEN UNCHANGED <<audio, coverImage, playbackRate, pitchValue, isPlaying>>
  ELSE LET track == tracks[index + 1]
       IN  /\ audio' = [src |-> track.url, currentTime |-> 0, duration |-> NaN,
                        playbackRate |-> updatePlaybackRate(RateOne, 0)]
           /\ coverImage' = IF track.coverArt # NoCover
                            THEN [kind |-> "image", src |-> track.coverArt, complete |-> FALSE,
                                  broken |-> FALSE]
                            ELSE NullImage
           /\ playbackRate' = RateOne
           /\ pitchValue' = 0
           /\ isPlaying' = TRUE

\* a click on the card of track index
openPlayer(index) ==
  /\ index \in 0 .. Len(tracks) - 1
  /\ currentTrackIndex' = index
  /\ loadTrack(index)
  /\ Step
  /\ op' = "openPlayer"
  /\ arg' = index
  /\ seek' = NoSeek
  /\ UNCHANGED <<animating, tracks, uploads, isDragging, rotation, lastAngle>>

play ==
  /\ isPlaying' = IF audio.src = NoSrc THEN isPlaying ELSE TRUE
  /\ Step
  /\ op' = "play"
  /\ arg' = 0
  /\ seek' = NoSeek
  /\ UNCHANGED <<animating, tracks, uploads, currentTrackIndex, isDragging, rotation, lastAngle,
                 playbackRate, pitchValue, audio, coverImage>>

pause ==
  /\ isPlaying' = FALSE
  /\ Step
  /\ op' = "pause"
  /\ arg' = 0
  /\ seek' = NoSeek
  /\ UNCHANGED <<animating, tracks, uploads, currentTrackIndex, isDragging, rotation, lastAngle,
                 playbackRate, pitchValue, audio, coverImage>>

\* a previous index without the + length that keeps the dividend non-negative
previousIndex_noWrap(i, n) == JsRem(JsAdd(i, -1), n)

\* the index previousTrack() computes
previousIndex(i, n) == JsRem(JsAdd(JsAdd(i, -1), n), n)

\* the index nextTrack() computes
nextIndex(i, n) == JsRem(JsAdd(i, 1), n)

previousTrack ==
  /\ currentTrackIndex' = previousIndex(currentTrackIndex, Len(tracks))
  /\ loadTrack(currentTrackIndex')
  /\ Step
  /\ op' = "previousTrack"
  /\ arg' = 0
  /\ seek' = NoSeek
  /\ UNCHANGED <<animating, tracks, uploads, isDragging, rotation, lastAngle>>

nextTrack ==
  /\ currentTrackIndex' = nextIndex(currentTrackIndex, Len(tracks))
  /\ loadTrack(currentTrackIndex')
  /\ Step
  /\ op' = "nextTrack"
  /\ arg' = 0
  /\ seek' = NoSeek
  /\ UNCHANGED <<animating, tracks, uploads, isDragging, rotation, lastAngle>>

\* the transport's 'ended' event: playback reached the end of the media
ended ==
  /\ audio.src # NoSrc
  /\ isPlaying
  /\ Truthy(audio.duration)
  /\ currentTrackIndex' = nextIndex(currentTrackIndex, Len(tracks))
  /\ loadTrack(currentTrackIndex')
  /\ Step
  /\ op' = "ended"
  /\ arg' = 0
  /\ seek' = NoSeek
  /\ UNCHANGED <<animating, tracks, uploads, isDragging, rotation, lastAngle>>

\* the transport's 'loadedmetadata' event: the duration becomes known
\* (updateDuration only writes the DOM)
updateDuration(d) ==
  /\ audio.src # NoSrc
  /\ audio.duration = NaN
  /\ audio' = [audio EXCEPT !.duration = d]
  /\ Step
  /\ op' = "updateDuration"
  /\ arg' = d
  /\ seek' = NoSeek
  /\ UNCHANGED <<animating, tracks, uploads, currentTrackIndex, isPlaying, isDragging, rotation, lastAngle,
                 playbackRate, pitchValue, coverImage>>

\* the onload of the cover image created by loadTrack
coverLoaded ==
  /\ coverImage.kind = "image"
  /\ ~coverImage.complete
  /\ coverImage' = [coverImage EXCEPT !.complete = TRUE]
  /\ Step
  /\ op' = "coverLoaded"
  /\ arg' = 0
  /\ seek' = NoSeek
  /\ UNCHANGED <<animating, tracks, uploads, currentTrackIndex, isPlaying, isDragging, rotation, lastAngle,
                 playbackRate, pitchValue, audio>>

\* the onerror of the cover image created by loadTrack: the data URL of the
\* picture does not decode, and the image ends complete and broken
coverFailed ==
  /\ coverImage.kind = "image"
  /\ ~coverImage.complete
  /\ coverImage' = [coverImage EXCEPT !.complete = TRUE, !.broken = TRUE]
  /\ Step
  /\ op' = "coverFailed"
  /\ arg' = 0
  /\ seek' = NoSeek
  /\ UNCHANGED <<animating, tracks, uploads, currentTrackIndex, isPlaying, isDragging, rotation, lastAngle,
                 playbackRate, pitchValue, audio>>

(***************************************************************************)
(* Rotation engine                                                         *)
(***************************************************************************)
\* updateTime() that advances the rotation during a drag too
updateTime_ignoresDragging(adv) ==
  /\ audio.src # NoSrc
  /\ audio' = IF isPlaying /\ Truthy(audio.duration)
              THEN [audio EXCEPT !.currentTime = Min(audio.currentTime + adv, audio.duration)]
              ELSE audio
  /\ rotation' = IF isPlaying
                 THEN rotation + (playbackRate * 2) \div RateOne
                 ELSE rotation
  /\ Step
  /\ op' = "updateTime"
  /\ arg' = adv
  /\ seek' = NoSeek
  /\ UNCHANGED <<animating, tracks, uploads, currentTrackIndex, isPlaying, isDragging, lastAngle,
                 playbackRate, pitchValue, coverImage>>

\* the 'timeupdate' event and its handler updateTime().  adv is the amount
\* the transport's position moved since the previous event (the position
\* moves only while playing media of known duration, and stops at the end)
updateTime(adv) ==
  /\ audio.src # NoSrc
  /\ audio' = IF isPlaying /\ Truthy(audio.duration)
              THEN [audio EXCEPT !.currentTime = Min(audio.currentTime + adv, audio.duration)]
              ELSE audio
  /\ rotation' = IF isPlaying /\ ~isDragging
                 THEN rotation + (playbackRate * 2) \div RateOne
                 ELSE rotation
  /\ Step
  /\ op' = "updateTime"
  /\ arg' = adv
  /\ seek' = NoSeek
  /\ UNCHANGED <<animating, tracks, uploads, currentTrackIndex, isPlaying, isDragging, lastAngle,
                 playbackRate, pitchValue, coverImage>>

\* startDrag() that does not record the pointer's angle
startDrag_keepsLastAngle(pointerAngle) ==
  /\ isDragging' = TRUE
  /\ lastAngle' = lastAngle
  /\ Step
  /\ op' = "startDrag"
  /\ arg' = pointerAngle
  /\ seek' = NoSeek
  /\ UNCHANGED <<animating, tracks, uploads, currentTrackIndex, isPlaying, rotation,
                 playbackRate, pitchValue, audio, coverImage>>

\* mousedown / touchstart with the pointer at angle pointerAngle = Math.atan2(y, x)
startDrag(pointerAngle) ==
  /\ isDragging' = TRUE
  /\ lastAngle' = pointerAngle
  /\ Step
  /\ op' = "startDrag"
  /\ arg' = pointerAngle
  /\ seek' = NoSeek
  /\ UNCHANGED <<animating, tracks, uploads, currentTrackIndex, isPlaying, rotation,
                 playbackRate, pitchValue, audio, coverImage>>

\* a wrap-around handling without the correction of deltas below -PI
wrapDelta_upperOnly(deltaAngle) ==
  IF deltaAngle > PI THEN deltaAngle - 2 * PI ELSE deltaAngle

\* no wrap-around handling at all
wrapDelta_none(deltaAngle) == deltaAngle

\* the number of wrap-around corrections drag() applies to deltaAngle: the
\* first if statement, then the second on the result of the first
wrapCorrections(deltaAngle) ==
  LET d1 == IF deltaAngle > PI THEN deltaAngle - 2 * PI ELSE deltaAngle
  IN  (IF deltaAngle > PI THEN 1 ELSE 0) + (IF d1 < -PI THEN 1 ELSE 0)

\* the wrap-around handling of drag(): the two corrections, in the order of the code
wrapDelta(deltaAngle) ==
  LET d1 == IF deltaAngle > PI THEN deltaAngle - 2 * PI ELSE deltaAngle
  IN  IF d1 < -PI THEN d1 + 2 * PI ELSE d1

\* a normalisation that keeps the sign of the truncating remainder
rotationNormalized_truncating(r) == JsRem(r, 360)

\* a normalization with one remainder only: (rotation + 360) % 360
rotationNormalized_single(r) == JsRem(r + 360, 360)

\* (rotation % 360 + 360) % 360
rotationNormalized(r) == JsRem(JsRem(r, 360) + 360, 360)

\* a seek target taken from the rotation as it is: (rotation / 360) * duration
newTime_unnormalized(r, duration) == (r * duration) \div 360

\* (rotationNormalized / 360) * duration
newTime(r, duration) == (rotationNormalized(r) * duration) \div 360

\* a deadband that also lets through a difference of exactly 0.1
seekNeeded_inclusive(currentTime, target) == Abs(currentTime - target) >= SeekThreshold

\* Math.abs(this.audio.currentTime - newTime) > 0.1
seekNeeded(currentTime, target) == Abs(currentTime - target) > SeekThreshold

\* the body of drag() after its early return: rotation, lastAngle and the seek
dragMove(currentAngle) ==
  LET deltaAngle == wrapDelta(currentAngle - lastAngle)
      target == newTime(rotation', audio.duration)
  IN  /\ rotation' = rotation + deltaAngle * (180 \div PI)
      /\ lastAngle' = currentAngle
      /\ IF Truthy(audio.duration) /\ seekNeeded(audio.currentTime, target)
         THEN /\ audio' = [audio EXCEPT !.currentTime = target]
              /\ seek' = target
         ELSE /\ audio' = audio
              /\ seek' = NoSeek

\* drag() that moves the disc whether or not a drag is active
drag_noGuard(currentAngle) ==
  /\ Step
  /\ op' = "drag"
  /\ arg' = currentAngle
  /\ dragMove(currentAngle)
  /\ UNCHANGED <<animating, tracks, uploads, currentTrackIndex, isPlaying, isDragging,
                 playbackRate, pitchValue, coverImage>>

\* drag() that also returns early while the duration is unknown or zero
drag_needsDuration(currentAngle) ==
  /\ Step
  /\ op' = "drag"
  /\ arg' = currentAngle
  /\ IF ~isDragging \/ ~Truthy(audio.duration)
     THEN /\ seek' = NoSeek
          /\ UNCHANGED <<rotation, lastAngle, audio>>
     ELSE dragMove(currentAngle)
  /\ UNCHANGED <<animating, tracks, uploads, currentTrackIndex, isPlaying, isDragging,
                 playbackRate, pitchValue, coverImage>>

\* mousemove / touchmove with the pointer at angle currentAngle = Math.atan2(y, x)
drag(currentAngle) ==
  /\ Step
  /\ op' = "drag"
  /\ arg' = currentAngle
  /\ IF ~isDragging
     THEN /\ seek' = NoSeek
          /\ UNCHANGED <<rotation, lastAngle, audio>>
     ELSE dragMove(currentAngle)
  /\ UNCHANGED <<animating, tracks, uploads, currentTrackIndex, isPlaying, isDragging,
                 playbackRate, pitchValue, coverImage>>

\* endDrag() that leaves the flag set
endDrag_keepsDragging ==
  /\ isDragging' = isDragging
  /\ Step
  /\ op' = "endDrag"
  /\ arg' = 0
  /\ seek' = NoSeek
  /\ UNCHANGED <<animating, tracks, uploads, currentTrackIndex, isPlaying, rotation, lastAngle,
                 playbackRate, pitchValue, audio, coverImage>>

\* mouseup / mouseleave / touchend
endDrag ==
  /\ isDragging' = FALSE
  /\ Step
  /\ op' = "endDrag"
  /\ arg' = 0
  /\ seek' = NoSeek
  /\ UNCHANGED <<animating, tracks, uploads, currentTrackIndex, isPlaying, rotation, lastAngle,
                 playbackRate, pitchValue, audio, coverImage>>

\* currentTrack?.coverArt
currentCoverArt ==
  IF hasTrack(currentTrackIndex) THEN tracks[currentTrackIndex + 1].coverArt ELSE NoCover

\* what drawVinyl() does for the centre label: it draws the cover when the
\* track has one and the image is complete, and paints the orange label
\* otherwise; drawImage throws InvalidStateError on an image that is broken
centerLabel ==
  IF currentCoverArt # NoCover /\ coverImage.kind = "image" /\ coverImage.complete
  THEN IF coverImage.broken THEN "throws" ELSE "cover"
  ELSE "label"

\* a frame that makes the playback tick itself before it paints
drawVinyl_ticks ==
  /\ animating
  /\ animating' = (centerLabel # "throws")
  /\ rotation' = IF isPlaying /\ ~isDragging
                 THEN rotation + (playbackRate * 2) \div RateOne
                 ELSE rotation
  /\ Step
  /\ op' = "drawVinyl"
  /\ arg' = centerLabel
  /\ seek' = NoSeek
  /\ UNCHANGED <<tracks, uploads, currentTrackIndex, isPlaying, isDragging, lastAngle,
                 playbackRate, pitchValue, audio, coverImage>>

\* one frame of animateVinyl(): drawVinyl() reads the state and paints, and
\* the next frame is requested unless drawVinyl() threw
drawVinyl ==
  /\ animating
  /\ animating' = (centerLabel # "throws")
  /\ Step
  /\ op' = "drawVinyl"
  /\ arg' = centerLabel
  /\ seek' = NoSeek
  /\ UNCHANGED <<tracks, uploads, currentTrackIndex, isPlaying, isDragging, rotation, lastAngle,
                 playbackRate, pitchValue, audio, coverImage>>

(***************************************************************************)
(* Specification                                                           *)
(***************************************************************************)
Next ==
  \/ \E batch \in PlayBatches : handleFileUpload(batch)
  \/ \E k \in 1 .. MaxUploads, env \in PlayEnvironments : uploadResume(k, env)
  \/ \E value \in SpeedValues : changeSpeed(value)
  \/ \E value \in PitchValues : changePitch(value)
  \/ resetEffects
  \/ \E index \in 0 .. MaxTracks - 1 : openPlayer(index)
  \/ play
  \/ pause
  \/ previousTrack
  \/ nextTrack
  \/ ended
  \/ \E d \in Durations : updateDuration(d)
  \/ coverLoaded
  \/ coverFailed
  \/ \E adv \in AdvanceSteps : updateTime(adv)
  \/ \E pointerAngle \in PointerAngles : startDrag(pointerAngle)
  \/ \E currentAngle \in PointerAngles : drag(currentAngle)
  \/ endDrag
  \/ drawVinyl


Spec == Init /\ [][Next]_vars

\* the import alone, with every file, selections of up to two files and
\* every surrounding
NextImport ==
  \/ \E batch \in Batches : handleFileUpload(batch)
  \/ \E k \in 1 .. MaxUploads, env \in Environments : uploadResume(k, env)

SpecImport == Init /\ [][NextImport]_vars

\* two selections made one right after the other
FirstSelection == <<SongFile, TextFile, FlacFile>>
SecondSelection == <<ClearFile, BareFile, MimeFile>>

\* the state once handleFileUpload has run for both selections up to its
\* first await, on a player that has done nothing else
InitOverlap ==
  /\ animating = TRUE
  /\ tracks = <<>>
  /\ uploads = <<[files |-> FirstSelection, i |-> nextAccepted(FirstSelection, 1), url |-> 1],
                 [files |-> SecondSelection, i |-> nextAccepted(SecondSelection, 1), url |-> 2]>>
  /\ currentTrackIndex = 0
  /\ isPlaying = FALSE
  /\ isDragging = FALSE
  /\ rotation = 0
  /\ lastAngle = 0
  /\ playbackRate = RateOne
  /\ pitchValue = 0
  /\ audio = [src |-> NoSrc, currentTime |-> 0, duration |-> NaN, playbackRate |-> RateOne]
  /\ coverImage = UndefinedImage
  /\ steps = 2
  /\ op = "handleFileUpload"
  /\ arg = SecondSelection
  /\ seek = NoSeek

\* the resumptions of the two imports in any order, among clicks on the
\* cards and on the navigation buttons
NextOverlap ==
  \/ \E k \in {1, 2}, env \in Environments : uploadResume(k, env)
  \/ \E index \in 0 .. 3 : openPlayer(index)
  \/ nextTrack
  \/ previousTrack

SpecOverlap == InitOverlap /\ [][NextOverlap]_vars

\* the durations of the media scratched: one second and 200 seconds
ScratchDurations == {Second, 200 * Second}

\* a scratch on a loaded track, begun with the disc at any whole angle of up
\* to MaxTheta degrees either way
InitScratch ==
  /\ animating = TRUE
  /\ tracks = <<makeTrack(MimeFile, 1, EmptyMetadata)>>
  /\ uploads = <<>>
  /\ currentTrackIndex = 0
  /\ isPlaying = TRUE
  /\ isDragging = TRUE
  /\ rotation \in -MaxTheta .. MaxTheta
  /\ lastAngle = 0
  /\ playbackRate = RateOne
  /\ pitchValue = 0
  /\ audio \in [src : {1}, currentTime : {0}, duration : ScratchDurations,
                playbackRate : {RateOne}]
  /\ coverImage = NullImage
  /\ steps = MaxSteps - 2
  /\ op = "startDrag"
  /\ arg = 0
  /\ seek = NoSeek

NextScratch == \E angle \in PointerAngles : drag(angle)

SpecScratch == InitScratch /\ [][NextScratch]_vars

(***************************************************************************)
(* Properties of the rotation engine                                       *)
(***************************************************************************)
\* the degrees of one pointer-angle unit
Degrees(angle) == angle * (180 \div PI)

\* the angle in [0, 360) congruent to r modulo 360
Mod360(r) == r % 360

\* the seek target of a rotation r on media of the given duration
SeekTarget(r, duration) == (Mod360(r) * duration) \div 360

\* a drag() call made while a drag is active
DragStep == isDragging /\ op' = "drag"

\* C1: single-writer rule for the rotation angle.  A step that changes
\* rotation is a drag() made while isDragging is true or an updateTime() made
\* while isDragging is false; no other handler changes rotation, and
\* updateTime() leaves it unchanged during a drag.
C1_SingleWriter ==
  [][rotation' # rotation =>
       \/ isDragging /\ op' = "drag"
       \/ ~isDragging /\ op' = "updateTime"]_vars

\* a drag() has turned the disc while the transport was playing
C1_Witness ==
  /\ op = "drag"
  /\ isDragging
  /\ isPlaying
  /\ rotation = 90

\* C2 as stated: the delta drag() adds to rotation is congruent to
\* (new - reference) modulo 360, lies in the half-open interval (-180, 180],
\* and lastAngle becomes the new pointer angle.
C2_DeltaHalfOpen ==
  [][DragStep =>
       /\ (rotation' - rotation - Degrees(arg' - lastAngle)) % 360 = 0
       /\ rotation' - rotation > -180
       /\ rotation' - rotation <= 180
       /\ lastAngle' = arg']_vars

\* C2 amended: the delta drag() adds to rotation is congruent to
\* (new - reference) modulo 360 and lies in the closed interval [-180, 180]:
\* it is -180 when new - reference is exactly -180, +180 when it is exactly
\* +180, and otherwise the representative strictly between; lastAngle becomes
\* the new pointer angle.
C2_DeltaClosed ==
  [][DragStep =>
       /\ (rotation' - rotation - Degrees(arg' - lastAngle)) % 360 = 0
       /\ rotation' - rotation >= -180
       /\ rotation' - rotation <= 180
       /\ (Degrees(arg' - lastAngle) = -180 => rotation' - rotation = -180)
       /\ (Degrees(arg' - lastAngle) = 180 => rotation' - rotation = 180)
       /\ lastAngle' = arg']_vars

\* a drag() whose raw difference was below -180 degrees (from +180 to -90)
\* has been applied as +90
C2_Witness ==
  /\ op = "drag"
  /\ isDragging
  /\ arg = 1 - PI
  /\ lastAngle = 1 - PI
  /\ rotation = 90
  /\ steps = 2

\* C3: whenever drag() writes audio.currentTime, the value written is
\* (normalize(rotation, 0, 360) / 360) * duration for the rotation after the
\* delta has been applied; on 200 s of media an angle of 0 gives 0 s and an
\* angle of 180 gives 100 s.
C3_SeekValue ==
  [][seek' # NoSeek =>
       /\ op' = "drag"
       /\ seek' * 360 = Mod360(rotation') * audio.duration
       /\ audio'.currentTime = seek'
       /\ (audio.duration = 200 * Second /\ Mod360(rotation') = 0 => seek' = 0)
       /\ (audio.duration = 200 * Second /\ Mod360(rotation') = 180
             => seek' = 100 * Second)]_vars

\* a drag() to a negative rotation equivalent to 180 degrees has written 100 s
C3_Witness ==
  /\ op = "drag"
  /\ rotation = -180
  /\ audio.duration = 200 * Second
  /\ seek = 100 * Second
  /\ audio.currentTime = 100 * Second

\* C4: seek deadband.  In a drag() made during a drag on media of known,
\* non-zero duration, a target within 0.1 s of the transport's position is
\* not written (the position is unchanged) and a target further away is
\* written exactly.
C4_Deadband ==
  [][DragStep /\ Truthy(audio.duration) =>
       LET target == SeekTarget(rotation', audio.duration)
           diff == Abs(audio.currentTime - target)
       IN  /\ diff <= SeekThreshold => seek' = NoSeek /\ audio' = audio
           /\ diff > SeekThreshold =>
                seek' = target /\ audio' = [audio EXCEPT !.currentTime = target]]_vars

\* a drag() has dropped a seek whose target was exactly 0.1 s away
C4_Witness ==
  /\ op = "drag"
  /\ isDragging
  /\ Truthy(audio.duration)
  /\ seek = NoSeek
  /\ Abs(audio.currentTime - SeekTarget(rotation, audio.duration)) = SeekThreshold

\* C5: while the duration is zero or unknown, a drag() made during a drag
\* still updates rotation and lastAngle and writes nothing to the transport.
C5_NoDurationNoSeek ==
  [][DragStep /\ ~Truthy(audio.duration) =>
       /\ seek' = NoSeek
       /\ audio' = audio
       /\ lastAngle' = arg'
       /\ (rotation' - rotation - Degrees(arg' - lastAngle)) % 360 = 0
       /\ (arg' # lastAngle => rotation' # rotation)]_vars

\* a drag() has turned the disc of a track whose metadata is not loaded yet
C5_Witness ==
  /\ op = "drag"
  /\ isDragging
  /\ audio.src # NoSrc
  /\ audio.duration = NaN
  /\ rotation = 180
  /\ lastAngle = PI
  /\ seek = NoSeek

\* C6: the player writes the transport position only while a drag is
\* active: a step that issues a seek is a drag() made with isDragging true,
\* so with isDragging false no handler issues one.
C6_SeekOnlyWhileDragging ==
  [][~isDragging => seek' = NoSeek]_vars

\* the pointer has moved over the disc of a loaded 200 s track, far from the
\* reference angle, without a drag being active, and nothing was written
C6_Witness ==
  /\ op = "drag"
  /\ ~isDragging
  /\ audio.duration = 200 * Second
  /\ arg # lastAngle
  /\ seek = NoSeek

(***************************************************************************)
(* Properties of the speed and pitch controls                              *)
(***************************************************************************)
\* C7: effective-rate invariant.  In every reachable state the transport
\* rate is speed * 2^(pitch/12): the speed itself at pitch 0, twice the speed
\* one octave up and half the speed one octave down; speed 1.5 with pitch +12
\* gives 3.0 and speed 1.0 with pitch -12 gives 0.5.
C7_EffectiveRate ==
  /\ pitchValue \in {-12, 0, 12}
  /\ pitchValue = 0 => audio.playbackRate = playbackRate
  /\ pitchValue = 12 => audio.playbackRate = 2 * playbackRate
  /\ pitchValue = -12 => 2 * audio.playbackRate = playbackRate
  /\ (2 * playbackRate = 3 * RateOne /\ pitchValue = 12 => audio.playbackRate = 3 * RateOne)
  /\ (playbackRate = RateOne /\ pitchValue = -12 => 2 * audio.playbackRate = RateOne)

\* changePitch(+12) has been applied at speed 1.5: the transport runs at 3.0
C7_Witness ==
  /\ op = "changePitch"
  /\ arg = 12
  /\ 2 * playbackRate = 3 * RateOne
  /\ audio.playbackRate = 3 * RateOne

C9_EmptyRegistryNoOp ==
  [][Len(tracks) = 0 /\ op' \in {"nextTrack", "previousTrack"} =>
       /\ currentTrackIndex' = currentTrackIndex
       /\ currentTrackIndex' # NaN
       /\ audio' = audio
       /\ coverImage' = coverImage
       /\ isPlaying' = isPlaying]_vars

\* C10 as stated: when not dragging, a playback tick advances rotation by
\* the effective playback rate (the transport rate, speed * 2^(pitch/12))
\* times the fixed increment of 2 degrees.
C10_TickUsesEffectiveRate ==
  [][op' = "updateTime" /\ isPlaying /\ ~isDragging =>
       (rotation' - rotation) * RateOne = audio.playbackRate * 2]_vars

(***************************************************************************)
(* Properties of the drag life cycle                                       *)
(***************************************************************************)
\* the parts of C11 that hold whatever the play state: isDragging becomes
\* true only through startDrag() and false only through endDrag(), and
\* endDrag() changes neither rotation nor the transport
DragFlagRules ==
  /\ (~isDragging /\ isDragging') => op' = "startDrag"
  /\ (isDragging /\ ~isDragging') => op' = "endDrag"
  /\ op' = "endDrag" =>
       /\ ~isDragging'
       /\ rotation' = rotation
       /\ audio' = audio
       /\ seek' = NoSeek

\* C11 as stated: the dragging flag becomes true only through startDrag and
\* false only through endDrag, endDrag changes neither rotation nor the
\* transport position, and the first playback tick (an updateTime) after
\* endDrag advances rotation again.
C11_TickAfterEndDragAdvances ==
  [][/\ DragFlagRules
     /\ (op = "endDrag" /\ op' = "updateTime" => rotation' > rotation)]_vars

\* C11 amended: as stated, except that the first updateTime() after endDrag
\* advances rotation only if isPlaying is true; while paused it leaves
\* rotation unchanged.
C11_TickAfterEndDragWhilePlaying ==
  [][/\ DragFlagRules
     /\ (op = "endDrag" /\ op' = "updateTime" =>
           IF isPlaying THEN rotation' > rotation ELSE rotation' = rotation)]_vars

\* a drag of 90 degrees has ended and the next tick has advanced the disc
C11_Witness ==
  /\ op = "updateTime"
  /\ ~isDragging
  /\ isPlaying
  /\ lastAngle # 0
  /\ rotation > 90
  /\ rotation < 180

\* C12: startDrag() sets isDragging, records the pointer's angle as
\* lastAngle and changes neither rotation nor the transport; the drag() that
\* follows it applies only the movement made since: nothing when the pointer
\* is at the same angle.
C12_StartDragFrame ==
  [][/\ op' = "startDrag" =>
          /\ isDragging'
          /\ lastAngle' = arg'
          /\ rotation' = rotation
          /\ audio' = audio
          /\ seek' = NoSeek
     /\ (op = "startDrag" /\ op' = "drag") =>
          /\ (rotation' - rotation - Degrees(arg' - arg)) % 360 = 0
          /\ (arg' = arg => rotation' = rotation)]_vars

\* startDrag() at 180 degrees, away from the initial lastAngle, then a
\* drag() at the same angle: the disc has not moved
C12_Witness ==
  /\ op = "drag"
  /\ steps = 2
  /\ isDragging
  /\ arg = PI
  /\ lastAngle = PI
  /\ rotation = 0

\* C13: a drag() changes rotation by at most 180 degrees in absolute value,
\* and applies at most one wrap-around correction.
C13_BoundedDelta ==
  [][DragStep =>
       /\ Abs(rotation' - rotation) <= 180
       /\ wrapCorrections(arg' - lastAngle) <= 1
       /\ (wrapCorrections(arg' - lastAngle) = 0
             => rotation' - rotation = Degrees(arg' - lastAngle))
       /\ (wrapCorrections(arg' - lastAngle) = 1
             => Abs(rotation' - rotation - Degrees(arg' - lastAngle)) = 360)]_vars

\* a drag() from -90 to +180 degrees, a raw difference of 270, has been
\* applied as -90
C13_Witness ==
  /\ op = "drag"
  /\ steps = 2
  /\ isDragging
  /\ arg = PI
  /\ rotation = -90

(***************************************************************************)
(* Angle normalization                                                     *)
(***************************************************************************)
\* C14: for every rotation, whole degrees positive, negative or beyond one
\* turn either way, the normalization of drag() returns an angle of 0 to
\* 359 degrees that differs from the rotation by whole turns, and
\* normalizing that angle again returns it unchanged; a seek made by drag()
\* is to that angle's share of the duration.
C14_Normalization ==
  LET normalized == rotationNormalized(rotation)
  IN  /\ normalized \in 0 .. 359
      /\ (rotation - normalized) % 360 = 0
      /\ rotationNormalized(normalized) = normalized
      /\ (op = "drag" /\ seek # NoSeek) => seek = (normalized * audio.duration) \div 360

\* a drag() has sought from a rotation more than a turn below zero
C14_Witness ==
  /\ op = "drag"
  /\ seek # NoSeek
  /\ rotation < -360
  /\ rotation % 360 # 0

(***************************************************************************)
(* Properties of the import                                                *)
(***************************************************************************)
\* the default palette as the source spells it: #2a2a2a, #525252, #1a1a1a
DefaultPalette ==
  [primary |-> <<42, 42, 42>>, lighter |-> <<82, 82, 82>>, darker |-> <<26, 26, 26>>]

LighterRule(colors) ==
  \A c \in 1 .. 3 :
    colors.lighter[c] = IF colors.primary[c] + 40 > 255 THEN 255 ELSE colors.primary[c] + 40

DarkerRule(colors) ==
  \A c \in 1 .. 3 :
    colors.darker[c] = IF colors.primary[c] - 40 < 0 THEN 0 ELSE colors.primary[c] - 40

\* C15 as stated: the palette of every track of the registry, extracted or
\* default, has on every channel lighter = min(primary + 40, 255) and
\* darker = max(primary - 40, 0).
C15_PaletteInvariant ==
  \A i \in 1 .. Len(tracks) : LighterRule(tracks[i].colors) /\ DarkerRule(tracks[i].colors)

\* C15: the palette of every track has on every channel
\* lighter = min(primary + 40, 255); it has darker = max(primary - 40, 0) on
\* every channel too unless it is the default palette, whose darker is 26 on
\* a primary of 42.
C15_ExtractedPaletteInvariant ==
  \A i \in 1 .. Len(tracks) :
    /\ LighterRule(tracks[i].colors)
    /\ DarkerRule(tracks[i].colors) \/ tracks[i].colors = DefaultPalette

\* a track has the palette extracted from picture 1, whose primary is
\* clamped on one channel by lighter and on another by darker
C15_Witness ==
  /\ op = "uploadResume"
  /\ tracks[Len(tracks)].colors =
       [primary |-> <<204, 0, 255>>, lighter |-> <<244, 40, 255>>, darker |-> <<164, 0, 215>>]

\* the sampled pixels of a picture: every tenth pixel from the first
SampledPixels(picture) ==
  {PictureData(picture)[k] : k \in {k \in DOMAIN PictureData(picture) : k % 10 = 1}}

\* the import of file in surroundings env can extract no palette
NoExtraction(file, env) ==
  \/ ~env.reader
  \/ ~file.tags.ok
  \/ file.tags.picture = NoCover
  \/ env.image \in {"error", "unreadable"}
  \/ \A pixel \in SampledPixels(file.tags.picture) : pixel[4] < 125

\* C16: every track of the registry has a palette of three colours, and the
\* track pushed by an import that could extract none (no tag reader, tag
\* read error, no embedded picture, picture that fails to load, pixels that
\* cannot be read, no opaque pixel sampled) has exactly the default palette.
C16_PaletteAlwaysPresent ==
  /\ \A i \in 1 .. Len(tracks) :
       \A shade \in {tracks[i].colors.primary, tracks[i].colors.lighter,
                     tracks[i].colors.darker} :
         Len(shade) = 3 /\ \A c \in 1 .. 3 : shade[c] \in 0 .. 255
  /\ (op = "uploadResume" /\ NoExtraction(tracks[Len(tracks)].file, arg))
       => tracks[Len(tracks)].colors = DefaultPalette

\* a file whose picture loads but has no opaque pixel has been imported
C16_Witness ==
  /\ op = "uploadResume"
  /\ arg = [reader |-> TRUE, image |-> "loaded"]
  /\ tracks[Len(tracks)].file = ClearFile
  /\ tracks[Len(tracks)].coverArt = 2
  /\ tracks[Len(tracks)].colors = DefaultPalette

\* the files of the dialog that are audio by their MIME type (a.mp3 and d)
\* or by their extension in any case (a.mp3, B.FLAC, e.v1.ogg); c.txt of
\* type text/plain and the file named mp3 are not
ExpectedAccepted == {SongFile, FlacFile, MimeFile, ClearFile}

\* the positions of the expected files of a selection after position from
ExpectedAfter(files, from) == {j \in from + 1 .. Len(files) : files[j] \in ExpectedAccepted}

\* the position in a selection at which an import that is past position from
\* waits: that of the next expected file, 0 at the end of the selection
ExpectedNext(files, from) ==
  IF ExpectedAfter(files, from) = {} THEN 0
  ELSE CHOOSE j \in ExpectedAfter(files, from) : \A l \in ExpectedAfter(files, from) : j <= l

\* the suspended imports after the k-th has moved past position from
ExpectedUploads(k, from) ==
  IF ExpectedNext(uploads[k].files, from) = 0
  THEN SubSeq(uploads, 1, k - 1) \o SubSeq(uploads, k + 1, Len(uploads))
  ELSE [uploads EXCEPT ![k].i = ExpectedNext(uploads[k].files, from),
                       ![k].url = Len(tracks) + Len(uploads) + 2]

\* C17: a selection creates a track for exactly its files that are audio by
\* MIME type or by extension in any case: handleFileUpload passes over the
\* other files without changing the registry or anything else and waits at
\* the first audio file, and each resumption pushes the track of the file
\* waited for and moves on to the next audio file, whatever lies between.
C17_AcceptedFilesOnly ==
  [][/\ op' = "handleFileUpload" =>
          /\ UNCHANGED <<animating, tracks, currentTrackIndex, isPlaying, isDragging, rotation,
                         lastAngle, playbackRate, pitchValue, audio, coverImage>>
          /\ uploads' = IF ExpectedNext(arg', 0) = 0 THEN uploads
                        ELSE Append(uploads, [files |-> arg', i |-> ExpectedNext(arg', 0),
                                              url |-> Len(tracks) + Len(uploads) + 1])
     /\ op' = "uploadResume" =>
          /\ UNCHANGED <<animating, currentTrackIndex, isPlaying, isDragging, rotation,
                         lastAngle, playbackRate, pitchValue, audio, coverImage>>
          /\ \E k \in 1 .. Len(uploads) :
               /\ uploads[k].files[uploads[k].i] \in ExpectedAccepted
               /\ Len(tracks') = Len(tracks) + 1
               /\ SubSeq(tracks', 1, Len(tracks)) = tracks
               /\ tracks'[Len(tracks')].file = uploads[k].files[uploads[k].i]
               /\ tracks'[Len(tracks')].url = uploads[k].url
               /\ uploads' = ExpectedUploads(k, uploads[k].i)]_vars

\* the import of a.mp3, c.txt and B.FLAC together has pushed a.mp3 and waits
\* for the metadata of B.FLAC
C17_Witness ==
  /\ op = "uploadResume"
  /\ Len(uploads) = 1
  /\ uploads[1].files = <<SongFile, TextFile, FlacFile>>
  /\ uploads[1].i = 3
  /\ tracks[Len(tracks)].file = SongFile

\* C18: no step removes, reorders or replaces a track of the registry: the
\* track at each index stays there with its title, artist, source, cover
\* and palette, and the number of tracks never goes down.
C18_AppendOnly ==
  [][/\ Len(tracks') >= Len(tracks)
     /\ \A i \in 1 .. Len(tracks) : tracks'[i] = tracks[i]]_vars

\* a second track has been pushed while the first was being scratched
C18_Witness ==
  /\ op = "uploadResume"
  /\ Len(tracks) = 2
  /\ isDragging
  /\ audio.src = 1
  /\ currentTrackIndex = 0

(***************************************************************************)
(* Properties of the frame loop                                            *)
(***************************************************************************)
\* the last step was a rotation update: a playback tick made while playing
\* and not dragging, or a drag update made while dragging
RotationUpdated ==
  \/ op = "updateTime" /\ isPlaying /\ ~isDragging
  \/ op = "drag" /\ isDragging

\* C19 as stated, for renders and updates that follow one another directly:
\* exactly one rotation update lies between two consecutive renders, so
\* while playing a render is never followed at once by another render, and
\* a rotation update is never followed at once by another rotation update.
C19_OneUpdatePerFrame ==
  [][/\ ~(op = "drawVinyl" /\ isPlaying /\ op' = "drawVinyl")
     /\ ~(RotationUpdated /\ RotationUpdated')]_vars

\* C19: rotation updates are not tied to frames.  The rotation changes only
\* in a playback tick (a timeupdate event of the transport) or in a drag
\* update (a pointer move event), any number of which may come between two
\* renders; a render changes nothing of the player and paints the rotation
\* that the latest update left.
C19_RenderReadsLatestRotation ==
  [][/\ rotation' # rotation => op' \in {"updateTime", "drag"}
     /\ op' = "drawVinyl" =>
          UNCHANGED <<tracks, uploads, currentTrackIndex, isPlaying, isDragging, rotation,
                      lastAngle, playbackRate, pitchValue, audio, coverImage>>]_vars

\* a render made while playing after two playback ticks
C19_Witness ==
  /\ op = "drawVinyl"
  /\ isPlaying
  /\ ~isDragging
  /\ rotation = 4
  /\ steps <= 5

\* C20: whatever the state of the cover image, drawVinyl() does not throw;
\* it draws the cover only when the image has loaded successfully and paints
\* the label otherwise.
C20_RenderNeverThrows ==
  op = "drawVinyl" =>
    arg = IF coverImage.kind = "image" /\ coverImage.complete /\ ~coverImage.broken
          THEN "cover" ELSE "label"

(***************************************************************************)
(* Properties of loading and navigation                                    *)
(***************************************************************************)
\* the last step was one of the callers of loadTrack
LoadStep == op \in {"openPlayer", "nextTrack", "previousTrack", "ended"}

\* C21: a loadTrack() that finds a track, whichever handler calls it,
\* leaves the speed at 1.0, the pitch at 0, the rate of the transport at 1.0
\* and isPlaying true, and does not change rotation or isDragging; one whose
\* index has no track changes none of these, nor the transport or the cover.
C21_LoadTrackFrame ==
  [][LoadStep' =>
       IF currentTrackIndex' \in 0 .. Len(tracks) - 1
       THEN /\ playbackRate' = RateOne
            /\ pitchValue' = 0
            /\ audio'.playbackRate = RateOne
            /\ audio'.src = tracks[currentTrackIndex' + 1].url
            /\ isPlaying'
            /\ UNCHANGED <<rotation, isDragging>>
       ELSE UNCHANGED <<audio, coverImage, playbackRate, pitchValue, isPlaying, rotation,
                        isDragging>>]_vars

\* nextTrack() has loaded a track in the middle of a scratch that had
\* turned the disc and sought the transport
C21_Witness ==
  /\ op = "nextTrack"
  /\ isDragging
  /\ rotation # 0
  /\ isPlaying
  /\ audio.src # NoSrc
  /\ audio.currentTime = 0
  /\ playbackRate = RateOne

\* C22 as stated: whenever the registry is not empty, currentTrackIndex is
\* an integer from 0 to tracks.length - 1.
C22_IndexInRange ==
  Len(tracks) > 0 => currentTrackIndex \in 0 .. Len(tracks) - 1

\* C23: every position drag() writes to the transport is at least 0 and
\* below the duration, whatever the rotation, negative or beyond a turn
\* either way, for a duration that is positive and finite.
C23_SeekInRange ==
  (op = "drag" /\ seek # NoSeek) =>
    /\ audio.duration # NaN
    /\ audio.duration > 0
    /\ seek >= 0
    /\ seek < audio.duration
    /\ audio.currentTime = seek

\* a drag() has sought from one degree below zero, to the last 360th of the
\* media
C23_Witness ==
  /\ op = "drag"
  /\ rotation = -1
  /\ seek # NoSeek
  /\ seek = (359 * audio.duration) \div 360
  /\ seek >= audio.duration - 1 - audio.duration \div 360

(***************************************************************************)
(* Properties of overlapping imports                                       *)
(***************************************************************************)
\* the files of the tracks of the registry that come from a selection, in
\* the order of the registry
RECURSIVE TracksFrom(_, _)
TracksFrom(files, k) ==
  IF k > Len(tracks) THEN <<>>
  ELSE (IF \E j \in 1 .. Len(files) : files[j] = tracks[k].file
        THEN <<tracks[k].file>> ELSE <<>>) \o TracksFrom(files, k + 1)

\* P is the beginning of S
IsPrefix(P, S) == Len(P) <= Len(S) /\ P = SubSeq(S, 1, Len(P))

\* the tracks still to come of the suspended imports
StillToCome ==
  LET toCome(u) == Cardinality({j \in u.i .. Len(u.files) : u.files[j] \in ExpectedAccepted})
  IN  IF uploads = <<>> THEN 0
      ELSE IF Len(uploads) = 1 THEN toCome(uploads[1])
      ELSE toCome(uploads[1]) + toCome(uploads[2])

\* C24: two imports that overlap, a.mp3, c.txt, B.FLAC and e.v1.ogg, mp3, d,
\* each give one track for each of their audio files, in the order of the
\* selection, however their resumptions and the user's operations are
\* interleaved: the tracks of each are the beginning of its audio files, no
\* URL is used twice, the tracks made and those still to come are four at
\* every moment, and all four are there when both imports have ended.
C24_OverlappingImports ==
  /\ IsPrefix(TracksFrom(FirstSelection, 1), <<SongFile, FlacFile>>)
  /\ IsPrefix(TracksFrom(SecondSelection, 1), <<ClearFile, MimeFile>>)
  /\ \A a, b \in 1 .. Len(tracks) : tracks[a].url = tracks[b].url => a = b
  /\ \A a \in 1 .. Len(tracks), k \in 1 .. Len(uploads) : tracks[a].url # uploads[k].url
  /\ Len(tracks) + StillToCome = 4
  /\ uploads = <<>> => Len(tracks) = 4

\* the two imports have ended after pushing their tracks in turn
C24_Witness ==
  /\ uploads = <<>>
  /\ Len(tracks) = 4
  /\ tracks[1].file = ClearFile
  /\ tracks[2].file = SongFile
  /\ tracks[3].file = MimeFile
  /\ tracks[4].file = FlacFile
  /\ currentTrackIndex = 1
  /\ audio.src = tracks[2].url

(***************************************************************************)
(* Properties of the cover                                                 *)
(***************************************************************************)
\* C25: whenever coverImage is an image, currentTrackIndex is the index of
\* a track, the source of the image is the coverArt of that track and the
\* source of the transport is its url; whenever the transport has a source
\* at all, it is the url of the current track, and coverImage is an image
\* exactly when that track has a cover.
C25_CoverOfCurrentTrack ==
  /\ coverImage.kind = "image" =>
        /\ hasTrack(currentTrackIndex)
        /\ coverImage.src = tracks[currentTrackIndex + 1].coverArt
        /\ coverImage.src # NoCover
        /\ audio.src = tracks[currentTrackIndex + 1].url
  /\ audio.src # NoSrc =>
        /\ hasTrack(currentTrackIndex)
        /\ audio.src = tracks[currentTrackIndex + 1].url
        /\ (coverImage.kind = "image") = (tracks[currentTrackIndex + 1].coverArt # NoCover)

\* navigation has gone from a track without a cover to one with a cover,
\* whose image is now loading
C25_Witness ==
  /\ op \in {"nextTrack", "previousTrack", "ended"}
  /\ Len(tracks) = 2
  /\ currentTrackIndex = 1
  /\ tracks[1].coverArt = NoCover
  /\ tracks[2].coverArt # NoCover
  /\ coverImage.kind = "image"
  /\ coverImage.src = tracks[2].coverArt
  /\ audio.src = tracks[2].url

=============================================================================
